---- MODULE Spec2Model ----
(***************************************************************************)
(* Model of the upload / progress controller of                            *)
(* src/frontend/finance-insight (3).jsx: the App component (stage,         *)
(* analysisData, apiError, handleAnalyze), the UploadStage component       *)
(* (file, error, over, accept) and the backend seen through fetch.         *)
(* Time is counted in milliseconds; the browser advances it in steps.      *)
(***************************************************************************)
EXTENDS Integers, Sequences, FiniteSets, TLC

VARIABLES
  stage,         \* App: useState(STAGE.UPLOAD)
  analysisData,  \* App: useState(null)
  apiError,      \* App: useState("")
  upload,        \* the mounted UploadStage's state, or Unmounted
  pc,            \* position of each handleAnalyze invocation
  fetchSt,       \* the fetch promise of each invocation
  jsonSt,        \* the response.json() promise of each invocation
  timer,         \* the pending setTimeout of each invocation (ms left)
  nCalls,        \* number of handleAnalyze invocations so far
  requests,      \* the files POSTed to the backend, in order
  stageAge,      \* ms the processing stage has been shown (saturating)
  last           \* the last operation that ran

vars == <<stage, analysisData, apiError, upload, pc, fetchSt, jsonSt,
          timer, nCalls, requests, stageAge, last>>

-----------------------------------------------------------------------------
(* Bounds *)

MaxUploads == 2

Calls == 1..MaxUploads

-----------------------------------------------------------------------------
(* Program constants *)

UPLOAD == 0
PARSING == 1
CLASSIFYING == 2
DONE == 3

STAGE == {UPLOAD, PARSING, CLASSIFYING, DONE}

ParsingMinMs == 1500
ClassifyingMinMs == 1000

UnsupportedMsg == "Unsupported File Format - only PDF bank statements accepted."
UnknownErrorMsg == "Unknown error"
FallbackMsg == "Something went wrong. Is the backend running?"

-----------------------------------------------------------------------------
(* Strings as character sequences, for String.prototype.endsWith *)

DotPdf == <<".", "p", "d", "f">>
PdfMime == "application/pdf"

EndsWith(s, suffix) ==
  /\ Len(s) >= Len(suffix)
  /\ SubSeq(s, Len(s) - Len(suffix) + 1, Len(s)) = suffix

(* the File objects the user can drop or pick *)
LowerName == <<"a", ".", "p", "d", "f">>
UpperName == <<"a", ".", "P", "D", "F">>
TextName == <<"a", ".", "p", "d", "f", ".", "t", "x", "t">>
Files == { [name |-> LowerName, type |-> PdfMime],
           [name |-> LowerName, type |-> ""],
           [name |-> UpperName, type |-> PdfMime],
           [name |-> UpperName, type |-> ""],
           [name |-> TextName, type |-> "text/plain"] }

(* null / undefined where a File is expected *)
NoFile == [name |-> <<>>, type |-> "null"]

-----------------------------------------------------------------------------
(* JSON values and the responses of the backend *)

JNull == [t |-> "null"]
JStr(s) == [t |-> "str", s |-> s]
JNum(n) == [t |-> "num", n |-> n]
JArr(elems) == [t |-> "arr", e |-> elems]
JObj(fields) == [t |-> "obj", f |-> fields]

EmptyObj == JObj(<<>>)
DetailObj(d) == JObj([k \in {"detail"} |-> d])

(* one entry of `categories` *)
Category(name, total) ==
  JObj([k \in {"name", "total"} |->
          IF k = "name" THEN JStr(name) ELSE JNum(total)])

(* `idle_cash` *)
IdleCash(burn, income, balance, surplus) ==
  JObj([k \in {"monthly_burn", "total_income", "balance", "investable_surplus"} |->
          CASE k = "monthly_burn" -> JNum(burn)
            [] k = "total_income" -> JNum(income)
            [] k = "balance" -> JNum(balance)
            [] OTHER -> JNum(surplus)])

(* an Analysis Result: the fields of it that the KPIs and the category bars
   read; amounts are whole rupees *)
AnalysisObj(p, idle, cats) ==
  JObj([k \in {"period", "idle_cash", "categories"} |->
          CASE k = "period" -> JStr(p)
            [] k = "idle_cash" -> idle
            [] OTHER -> JArr(cats)])

(* the Analysis Results the backend answers with: a consistent one, the
   categories [100, 50] with a balance that is not income - burn, a first
   category with total 0, and no category at all *)
BackendResults ==
  { AnalysisObj("September 2026", IdleCash(600, 1000, 400, 320),
                <<Category("Dining", 400), Category("Subscriptions", 200)>>),
    AnalysisObj("August 2026", IdleCash(150, 1000, 900, 680),
                <<Category("Dining", 100), Category("Commute", 50)>>),
    AnalysisObj("July 2026", IdleCash(0, 200, 200, 160),
                <<Category("Transfers", 0)>>),
    AnalysisObj("June 2026", IdleCash(0, 0, 0, 0), <<>>) }

(* a response body: text that parses to a JSON value, or text that does not *)
Parsed(v) == [valid |-> TRUE, value |-> v]
NotJson == [valid |-> FALSE, value |-> JNull]

ErrorBodies == { Parsed(DetailObj(JStr("Only PDF files are accepted"))),
                 Parsed(DetailObj(JStr(""))),
                 Parsed(DetailObj(JArr(<<>>))),
                 Parsed(EmptyObj),
                 Parsed(JNull),
                 NotJson }
SuccessBodies == {Parsed(a) : a \in BackendResults} \cup {Parsed(JNull), NotJson}

Responses ==
  [ok : {TRUE}, status : {200}, body : SuccessBodies] \cup
  [ok : {FALSE}, status : {500}, body : ErrorBodies] \cup
  [ok : {FALSE}, status : {422},
   body : {Parsed(EmptyObj), Parsed(DetailObj(JArr(<<EmptyObj>>)))}]

(* messages of the errors fetch rejects with *)
NetworkErrors == { "Failed to fetch", "" }
SyntaxErrorMsg == "Unexpected token < in JSON at position 0"
NullReadMsg == "Cannot read properties of null (reading 'detail')"

(* JavaScript truthiness of a JSON value *)
Truthy(v) ==
  CASE v.t = "null" -> FALSE
    [] v.t = "str" -> v.s # ""
    [] v.t = "num" -> v.n # 0
    [] OTHER -> TRUE

(* String(v), as new Error(v) applies it to its argument *)
RECURSIVE JoinStr(_)
ToStr(v) ==
  CASE v.t = "str" -> v.s
    [] v.t = "null" -> "null"
    [] v.t = "num" -> ToString(v.n)
    [] v.t = "obj" -> "[object Object]"
    [] OTHER -> JoinStr(v.e)
JoinStr(es) ==
  IF es = <<>> THEN ""
  ELSE IF Len(es) = 1 THEN (IF Head(es).t = "null" THEN "" ELSE ToStr(Head(es)))
  ELSE "[object Object],..."

(* `Server error ${response.status}` *)
ServerError(n) == JStr("Server error " \o ToString(n))

(* obj.key of a parsed JSON object; undefined reads as null *)
Get(v, k) == IF v.t = "obj" /\ k \in DOMAIN v.f THEN v.f[k] ELSE JNull

-----------------------------------------------------------------------------
(* Dashboard *)

(* MOCK_TRANSACTIONS: amount, type and category of each entry *)
Txn(a, ty, c) == [amount |-> a, type |-> ty, category |-> c]
MOCK_TRANSACTIONS ==
  << Txn(685, "Debit", "Dining & Local Eats"),
     Txn(100253, "Credit", "Income"),
     Txn(180, "Debit", "Dining & Local Eats"),
     Txn(15000, "Debit", "Investments"),
     Txn(340, "Debit", "Commute & Transport"),
     Txn(189, "Debit", "Subscriptions"),
     Txn(520, "Debit", "Dining & Local Eats"),
     Txn(1200, "Debit", "Utilities & Housing"),
     Txn(2340, "Debit", "Shopping & Lifestyle"),
     Txn(130, "Debit", "Subscriptions"),
     Txn(500, "Debit", "Commute & Transport"),
     Txn(430, "Debit", "Dining & Local Eats"),
     Txn(4500, "Debit", "Insurance & Protection"),
     Txn(119, "Debit", "Subscriptions"),
     Txn(95, "Debit", "Commute & Transport"),
     Txn(1640, "Debit", "Dining & Local Eats"),
     Txn(5000, "Debit", "Investments"),
     Txn(649, "Debit", "Subscriptions"),
     Txn(3000, "Debit", "Family & Transfers"),
     Txn(6200, "Debit", "Utilities & Housing") >>

(* mock.filter(t => t.type === ty).reduce((s,t) => s+t.amount, 0) *)
RECURSIVE SumOfType(_, _)
SumOfType(txns, ty) ==
  IF txns = <<>> THEN 0
  ELSE (IF Head(txns).type = ty THEN Head(txns).amount ELSE 0)
       + SumOfType(Tail(txns), ty)

(* catMap[t.category] = (catMap[t.category]||0) + t.amount, the keys kept in
   insertion order *)
AddToCatMap(cm, t) ==
  IF \E k \in 1..Len(cm) : cm[k].name = t.category
    THEN [k \in 1..Len(cm) |->
            IF cm[k].name = t.category
              THEN [cm[k] EXCEPT !.total = @ + t.amount]
              ELSE cm[k]]
    ELSE Append(cm, [name |-> t.category, total |-> t.amount])

RECURSIVE CatMap(_)
CatMap(txns) ==
  IF txns = <<>> THEN <<>>
  ELSE LET front == SubSeq(txns, 1, Len(txns) - 1)
           t == txns[Len(txns)]
       IN IF t.type = "Debit" THEN AddToCatMap(CatMap(front), t)
                              ELSE CatMap(front)

(* .sort((a,b) => b.total - a.total): stable, descending by total *)
InsertDesc(sorted, x) ==
  LET n == Cardinality({k \in 1..Len(sorted) : sorted[k].total >= x.total})
  IN SubSeq(sorted, 1, n) \o <<x>> \o SubSeq(sorted, n + 1, Len(sorted))

RECURSIVE SortDesc(_)
SortDesc(cm) ==
  IF cm = <<>> THEN <<>>
  ELSE InsertDesc(SortDesc(SubSeq(cm, 1, Len(cm) - 1)), cm[Len(cm)])

(* surplus = balance * 0.8, rounded to the whole rupee that fmt shows *)
MockSurplus(balance) == (balance * 8 + 5) \div 10

(* the object the fallback of Dashboard builds from MOCK_TRANSACTIONS *)
MockAnalysis ==
  LET totalBurn == SumOfType(MOCK_TRANSACTIONS, "Debit")
      totalIncome == SumOfType(MOCK_TRANSACTIONS, "Credit")
      balance == totalIncome - totalBurn
      cats == SortDesc(CatMap(MOCK_TRANSACTIONS))
  IN AnalysisObj("October 2026",
                 IdleCash(totalBurn, totalIncome, balance, MockSurplus(balance)),
                 [k \in 1..Len(cats) |-> Category(cats[k].name, cats[k].total)])

(* const analysis = data || (() => {...})() *)
Analysis(data) == IF Truthy(data) THEN data ELSE MockAnalysis

(* const { categories, idle_cash } = analysis *)
Categories(a) == Get(a, "categories").e
IdleCashOf(a) == Get(a, "idle_cash")

(* the bars scaled by the total spend instead of the first category *)
maxCat_burn(a) ==
  LET burn == Get(IdleCashOf(a), "monthly_burn")
  IN IF Truthy(burn) THEN burn.n ELSE 1

(* const maxCat = categories[0]?.total || 1 *)
maxCat(a) ==
  LET first == IF Categories(a) = <<>> THEN JNull
               ELSE Get(Categories(a)[1], "total")
  IN IF Truthy(first) THEN first.n ELSE 1

(* width: `${(c.total/maxCat)*100}%` of the k-th category: the percentage
   num / den, kept as a fraction *)
BarWidth(a, k) ==
  [num |-> Get(Categories(a)[k], "total").n * 100, den |-> maxCat(a)]

(* Number(n).toLocaleString("en-IN", { maximumFractionDigits: 0 }) for a whole
   number: the digits, the last three in one group and the others in groups
   of two *)
DigitChars == <<"0", "1", "2", "3", "4", "5", "6", "7", "8", "9">>

RECURSIVE Digits(_)
Digits(n) ==
  IF n < 10 THEN <<DigitChars[n + 1]>>
  ELSE Append(Digits(n \div 10), DigitChars[(n % 10) + 1])

RECURSIVE GroupPairs(_)
GroupPairs(ds) ==
  IF Len(ds) <= 2 THEN ds
  ELSE GroupPairs(SubSeq(ds, 1, Len(ds) - 2)) \o <<",">>
       \o SubSeq(ds, Len(ds) - 1, Len(ds))

GroupIndian(ds) ==
  IF Len(ds) <= 3 THEN ds
  ELSE GroupPairs(SubSeq(ds, 1, Len(ds) - 3)) \o <<",">>
       \o SubSeq(ds, Len(ds) - 2, Len(ds))

(* fmt(n): the rupee sign, written "Rs" here, and the grouped number *)
fmt(n) ==
  <<"Rs">> \o (IF n < 0 THEN <<"-">> ELSE <<>>)
           \o GroupIndian(Digits(IF n < 0 THEN 0 - n ELSE n))

(* the Net Balance KPI with the surplus in its place *)
NetBalanceKpi_surplus(a) == fmt(Get(IdleCashOf(a), "investable_surplus").n)

(* kpis: { label: "Net Balance", value: fmt(balance) } *)
NetBalanceKpi(a) == fmt(Get(IdleCashOf(a), "balance").n)

-----------------------------------------------------------------------------
(* Promises and timers of one handleAnalyze invocation *)

NoPromise == [st |-> "none"]
Pending == [st |-> "pending"]
Resolved(v) == [st |-> "resolved", val |-> v]
Rejected(m) == [st |-> "rejected", msg |-> m]

NoTimer == -1
TimerFired == -2

TickSizes == {500, 1000}

Max(a, b) == IF a > b THEN a ELSE b
Min(a, b) == IF a < b THEN a ELSE b

-----------------------------------------------------------------------------
(* UploadStage *)

Unmounted == [mounted |-> FALSE, file |-> NoFile, error |-> "", over |-> FALSE]
FreshUpload == [mounted |-> TRUE, file |-> NoFile, error |-> "", over |-> FALSE]

(* a render that keeps UploadStage on screen in every stage *)
Render_always(st, up) == IF up.mounted THEN up ELSE FreshUpload

(* App's render: UploadStage exists only while stage = UPLOAD, and a newly
   mounted UploadStage starts from its useState initial values *)
Render(st, up) ==
  IF st = UPLOAD
    THEN (IF up.mounted THEN up ELSE FreshUpload)
    ELSE Unmounted

(* the Analyze button: present with UploadStage, disabled = {!file} *)
AnalyzeEnabled == upload.mounted /\ upload.file # NoFile

(* setStage(s): the stage's age restarts when its value changes *)
AgeAfter(s) == IF s = stage THEN stageAge ELSE 0

InFlight == {i \in Calls : pc[i] \notin {"notStarted", "done"}}

-----------------------------------------------------------------------------

Init ==
  /\ stage = UPLOAD
  /\ analysisData = JNull
  /\ apiError = ""
  /\ upload = FreshUpload
  /\ pc = [i \in Calls |-> "notStarted"]
  /\ fetchSt = [i \in Calls |-> NoPromise]
  /\ jsonSt = [i \in Calls |-> NoPromise]
  /\ timer = [i \in Calls |-> NoTimer]
  /\ nCalls = 0
  /\ requests = <<>>
  /\ stageAge = 0
  /\ last = [op |-> "init", file |-> NoFile, call |-> 0]

AppUnchanged == UNCHANGED <<stage, analysisData, apiError, stageAge>>
CallsUnchanged == UNCHANGED <<pc, fetchSt, jsonSt, timer, nCalls, requests>>

(* accept(f) without setFile(null) in the rejecting branch *)
accept_keepFile(up, f) ==
  IF f = NoFile
    THEN up
    ELSE IF ~EndsWith(f.name, DotPdf) /\ f.type # PdfMime
      THEN [up EXCEPT !.error = UnsupportedMsg]
      ELSE [up EXCEPT !.error = "", !.file = f]

(* accept(f) rejecting a file that fails either test *)
accept_either(up, f) ==
  IF f = NoFile
    THEN up
    ELSE IF ~EndsWith(f.name, DotPdf) \/ f.type # PdfMime
      THEN [up EXCEPT !.error = UnsupportedMsg, !.file = NoFile]
      ELSE [up EXCEPT !.error = "", !.file = f]

(* accept(f) without setError("") in the accepting branch *)
accept_keepError(up, f) ==
  IF f = NoFile
    THEN up
    ELSE IF ~EndsWith(f.name, DotPdf) /\ f.type # PdfMime
      THEN [up EXCEPT !.error = UnsupportedMsg, !.file = NoFile]
      ELSE [up EXCEPT !.file = f]

(* UploadStage.accept(f): the state of UploadStage after accept(f) *)
accept(up, f) ==
  IF f = NoFile
    THEN up
    ELSE IF ~EndsWith(f.name, DotPdf) /\ f.type # PdfMime
      THEN [up EXCEPT !.error = UnsupportedMsg, !.file = NoFile]
      ELSE [up EXCEPT !.error = "", !.file = f]

(* dropzone onDragOver *)
onDragOver ==
  /\ upload.mounted
  /\ upload' = [upload EXCEPT !.over = TRUE]
  /\ last' = [op |-> "onDragOver", file |-> NoFile, call |-> 0]
  /\ AppUnchanged
  /\ CallsUnchanged

(* dropzone onDragLeave *)
onDragLeave ==
  /\ upload.mounted
  /\ upload' = [upload EXCEPT !.over = FALSE]
  /\ last' = [op |-> "onDragLeave", file |-> NoFile, call |-> 0]
  /\ AppUnchanged
  /\ CallsUnchanged

(* dropzone onDrop: setOver(false); accept(e.dataTransfer.files[0]) *)
onDrop(f) ==
  /\ upload.mounted
  /\ upload' = accept([upload EXCEPT !.over = FALSE], f)
  /\ last' = [op |-> "onDrop", file |-> f, call |-> 0]
  /\ AppUnchanged
  /\ CallsUnchanged

(* hidden file input onChange: accept(e.target.files[0]) *)
onChange(f) ==
  /\ upload.mounted
  /\ upload' = accept(upload, f)
  /\ last' = [op |-> "onChange", file |-> f, call |-> 0]
  /\ AppUnchanged
  /\ CallsUnchanged

(* handleAnalyze without setApiError("") *)
handleAnalyze_keepError ==
  /\ AnalyzeEnabled
  /\ nCalls < MaxUploads
  /\ LET i == nCalls + 1 IN
       /\ nCalls' = i
       /\ pc' = [pc EXCEPT ![i] = "await1"]
       /\ fetchSt' = [fetchSt EXCEPT ![i] = Pending]
       /\ timer' = [timer EXCEPT ![i] = ParsingMinMs]
       /\ requests' = Append(requests, upload.file)
       /\ last' = [op |-> "handleAnalyze", file |-> upload.file, call |-> i]
  /\ stage' = PARSING
  /\ stageAge' = AgeAfter(PARSING)
  /\ upload' = Render(PARSING, upload)
  /\ UNCHANGED <<analysisData, apiError, jsonSt>>

(* Click on the Analyze button: onAnalyze(file) runs handleAnalyze up to its
   first await: setApiError(""), setStage(PARSING), the POST is issued by
   fetch and the 1500 ms timer is started *)
handleAnalyze ==
  /\ AnalyzeEnabled
  /\ nCalls < MaxUploads
  /\ LET i == nCalls + 1 IN
       /\ nCalls' = i
       /\ pc' = [pc EXCEPT ![i] = "await1"]
       /\ fetchSt' = [fetchSt EXCEPT ![i] = Pending]
       /\ timer' = [timer EXCEPT ![i] = ParsingMinMs]
       /\ requests' = Append(requests, upload.file)
       /\ last' = [op |-> "handleAnalyze", file |-> upload.file, call |-> i]
  /\ apiError' = ""
  /\ stage' = PARSING
  /\ stageAge' = AgeAfter(PARSING)
  /\ upload' = Render(PARSING, upload)
  /\ UNCHANGED <<analysisData, jsonSt>>

(* Time passes: pending timers run down, the stage grows older *)
Tick(d) ==
  /\ stage \in {PARSING, CLASSIFYING}
  /\ \/ stageAge < ParsingMinMs
     \/ \E i \in Calls : timer[i] > 0
  /\ timer' = [i \in Calls |-> IF timer[i] > 0 THEN Max(0, timer[i] - d) ELSE timer[i]]
  /\ stageAge' = Min(stageAge + d, ParsingMinMs)
  /\ last' = [op |-> "Tick", file |-> NoFile, call |-> 0]
  /\ UNCHANGED <<stage, analysisData, apiError, upload, pc, fetchSt,
                 jsonSt, nCalls, requests>>

(* The backend answers: the fetch promise is fulfilled with a Response *)
FetchResolve(i, r) ==
  /\ pc[i] = "await1"
  /\ fetchSt[i] = Pending
  /\ fetchSt' = [fetchSt EXCEPT ![i] = Resolved(r)]
  /\ last' = [op |-> "FetchResolve", file |-> NoFile, call |-> i]
  /\ UNCHANGED <<stage, analysisData, apiError, upload, pc, jsonSt,
                 timer, nCalls, requests, stageAge>>

(* The request fails at the network level: the fetch promise is rejected *)
FetchReject(i, m) ==
  /\ pc[i] = "await1"
  /\ fetchSt[i] = Pending
  /\ fetchSt' = [fetchSt EXCEPT ![i] = Rejected(m)]
  /\ last' = [op |-> "FetchReject", file |-> NoFile, call |-> i]
  /\ UNCHANGED <<stage, analysisData, apiError, upload, pc, jsonSt,
                 timer, nCalls, requests, stageAge>>

(* The callback of a setTimeout runs once its delay has elapsed *)
TimerFire(i) ==
  /\ pc[i] \in {"await1", "await2"}
  /\ timer[i] = 0
  /\ timer' = [timer EXCEPT ![i] = TimerFired]
  /\ last' = [op |-> "TimerFire", file |-> NoFile, call |-> i]
  /\ UNCHANGED <<stage, analysisData, apiError, upload, pc, fetchSt,
                 jsonSt, nCalls, requests, stageAge>>

(* a catch block without the fallback text *)
Catch_noFallback(i, m, why) ==
  /\ apiError' = m
  /\ stage' = UPLOAD
  /\ stageAge' = AgeAfter(UPLOAD)
  /\ upload' = Render(UPLOAD, upload)
  /\ pc' = [pc EXCEPT ![i] = "done"]
  /\ timer' = [timer EXCEPT ![i] = NoTimer]
  /\ last' = [op |-> why, file |-> NoFile, call |-> i]
  /\ fetchSt' = [fetchSt EXCEPT ![i] = NoPromise]
  /\ jsonSt' = [jsonSt EXCEPT ![i] = NoPromise]
  /\ UNCHANGED <<analysisData, nCalls, requests>>

(* catch (err): setApiError(err.message || fallback); setStage(UPLOAD) *)
Catch(i, m, why) ==
  /\ apiError' = (IF m # "" THEN m ELSE FallbackMsg)
  /\ stage' = UPLOAD
  /\ stageAge' = AgeAfter(UPLOAD)
  /\ upload' = Render(UPLOAD, upload)
  /\ pc' = [pc EXCEPT ![i] = "done"]
  /\ timer' = [timer EXCEPT ![i] = NoTimer]
  /\ last' = [op |-> why, file |-> NoFile, call |-> i]
  /\ /\ fetchSt' = [fetchSt EXCEPT ![i] = NoPromise]
  /\ jsonSt' = [jsonSt EXCEPT ![i] = NoPromise]
  /\ UNCHANGED <<analysisData, nCalls, requests>>

(* a fetch outside the try block: the rejection ends the invocation and
   nothing is set *)
CatchFetch_uncaught(i) ==
  /\ pc[i] = "await1"
  /\ fetchSt[i].st = "rejected"
  /\ pc' = [pc EXCEPT ![i] = "done"]
  /\ timer' = [timer EXCEPT ![i] = NoTimer]
  /\ fetchSt' = [fetchSt EXCEPT ![i] = NoPromise]
  /\ last' = [op |-> "CatchFetch", file |-> NoFile, call |-> i]
  /\ UNCHANGED <<stage, analysisData, apiError, upload, jsonSt, nCalls,
                 requests, stageAge>>

(* a rejected fetch that is issued again instead of being reported *)
CatchFetch_retry(i) ==
  /\ pc[i] = "await1"
  /\ fetchSt[i].st = "rejected"
  /\ Len(requests) < MaxUploads + 1
  /\ fetchSt' = [fetchSt EXCEPT ![i] = Pending]
  /\ requests' = Append(requests, requests[i])
  /\ last' = [op |-> "CatchFetch", file |-> NoFile, call |-> i]
  /\ UNCHANGED <<stage, analysisData, apiError, upload, pc, jsonSt, timer,
                 nCalls, stageAge>>

(* The first Promise.all rejects as soon as fetch rejects: control goes to
   the catch block without waiting for the timer *)
CatchFetch(i) ==
  /\ pc[i] = "await1"
  /\ fetchSt[i].st = "rejected"
  /\ Catch(i, fetchSt[i].msg, "CatchFetch")

(* setStage(STAGE.CLASSIFYING) after the first await *)
StageAfterFetch_skip == DONE
StageAfterFetch == CLASSIFYING

(* The first Promise.all is fulfilled when fetch is fulfilled and the 1500 ms
   timer has fired: setStage(CLASSIFYING), then either the error body is read
   (!response.ok) or the second Promise.all starts response.json() and the
   1000 ms timer *)
AfterFetch(i) ==
  /\ pc[i] = "await1"
  /\ fetchSt[i].st = "resolved"
  /\ timer[i] = TimerFired
  /\ stage' = StageAfterFetch
  /\ stageAge' = AgeAfter(StageAfterFetch)
  /\ upload' = Render(StageAfterFetch, upload)
  /\ jsonSt' = [jsonSt EXCEPT ![i] = Pending]
  /\ IF ~fetchSt[i].val.ok
       THEN /\ pc' = [pc EXCEPT ![i] = "awaitErrJson"]
            /\ timer' = [timer EXCEPT ![i] = NoTimer]
       ELSE /\ pc' = [pc EXCEPT ![i] = "await2"]
            /\ timer' = [timer EXCEPT ![i] = ClassifyingMinMs]
  /\ last' = [op |-> "AfterFetch", file |-> NoFile, call |-> i]
  /\ UNCHANGED <<analysisData, apiError, fetchSt, nCalls, requests>>

(* a response.json() whose parsed value is stored as the analysis at once *)
JsonSettle_storeData(i) ==
  /\ pc[i] \in {"awaitErrJson", "await2"}
  /\ jsonSt[i] = Pending
  /\ LET body == fetchSt[i].val.body IN
       /\ jsonSt' = [jsonSt EXCEPT ![i] =
                       IF body.valid THEN Resolved(body.value)
                                     ELSE Rejected(SyntaxErrorMsg)]
       /\ analysisData' = IF body.valid THEN body.value ELSE analysisData
  /\ last' = [op |-> "JsonSettle", file |-> NoFile, call |-> i]
  /\ UNCHANGED <<stage, apiError, upload, pc, fetchSt, timer, nCalls,
                 requests, stageAge>>

(* response.json() settles: fulfilled with the parsed body, or rejected with
   a SyntaxError when the body is not JSON *)
JsonSettle(i) ==
  /\ pc[i] \in {"awaitErrJson", "await2"}
  /\ jsonSt[i] = Pending
  /\ LET body == fetchSt[i].val.body IN
       jsonSt' = [jsonSt EXCEPT ![i] =
                    IF body.valid THEN Resolved(body.value)
                                  ELSE Rejected(SyntaxErrorMsg)]
  /\ last' = [op |-> "JsonSettle", file |-> NoFile, call |-> i]
  /\ UNCHANGED <<stage, analysisData, apiError, upload, pc, fetchSt,
                 timer, nCalls, requests, stageAge>>

(* the message of the error thrown in the !response.ok branch:
   err = await response.json().catch(() => ({ detail: "Unknown error" }));
   throw new Error(err.detail || `Server error ${response.status}`) *)
ErrorMessage(js, status) ==
  LET err == IF js.st = "resolved" THEN js.val
             ELSE DetailObj(JStr(UnknownErrorMsg))
  IN IF err.t = "null"
       THEN NullReadMsg
       ELSE LET d == Get(err, "detail")
            IN ToStr(IF Truthy(d) THEN d ELSE ServerError(status))

(* !response.ok: once the body is read the error is thrown and caught *)
ThrowNotOk(i) ==
  /\ pc[i] = "awaitErrJson"
  /\ jsonSt[i].st \in {"resolved", "rejected"}
  /\ Catch(i, ErrorMessage(jsonSt[i], fetchSt[i].val.status), "ThrowNotOk")

(* The second Promise.all rejects as soon as response.json() rejects *)
CatchJson(i) ==
  /\ pc[i] = "await2"
  /\ jsonSt[i].st = "rejected"
  /\ Catch(i, jsonSt[i].msg, "CatchJson")

(* a success path that does not wait for the 1000 ms timer *)
Finish_noTimer(i) ==
  /\ pc[i] = "await2"
  /\ jsonSt[i].st = "resolved"
  /\ analysisData' = jsonSt[i].val
  /\ stage' = DONE
  /\ stageAge' = AgeAfter(DONE)
  /\ upload' = Render(DONE, upload)
  /\ pc' = [pc EXCEPT ![i] = "done"]
  /\ timer' = [timer EXCEPT ![i] = NoTimer]
  /\ last' = [op |-> "Finish", file |-> NoFile, call |-> i]
  /\ fetchSt' = [fetchSt EXCEPT ![i] = NoPromise]
  /\ jsonSt' = [jsonSt EXCEPT ![i] = NoPromise]
  /\ UNCHANGED <<apiError, nCalls, requests>>

(* a success path that stores the data and leaves the stage alone *)
Finish_noStage(i) ==
  /\ pc[i] = "await2"
  /\ jsonSt[i].st = "resolved"
  /\ timer[i] = TimerFired
  /\ analysisData' = jsonSt[i].val
  /\ pc' = [pc EXCEPT ![i] = "done"]
  /\ timer' = [timer EXCEPT ![i] = NoTimer]
  /\ last' = [op |-> "Finish", file |-> NoFile, call |-> i]
  /\ fetchSt' = [fetchSt EXCEPT ![i] = NoPromise]
  /\ jsonSt' = [jsonSt EXCEPT ![i] = NoPromise]
  /\ UNCHANGED <<stage, stageAge, upload, apiError, nCalls, requests>>

(* The second Promise.all is fulfilled: setAnalysisData(data);
   setStage(DONE) *)
Finish(i) ==
  /\ pc[i] = "await2"
  /\ jsonSt[i].st = "resolved"
  /\ timer[i] = TimerFired
  /\ analysisData' = jsonSt[i].val
  /\ stage' = DONE
  /\ stageAge' = AgeAfter(DONE)
  /\ upload' = Render(DONE, upload)
  /\ pc' = [pc EXCEPT ![i] = "done"]
  /\ timer' = [timer EXCEPT ![i] = NoTimer]
  /\ last' = [op |-> "Finish", file |-> NoFile, call |-> i]
  /\ /\ fetchSt' = [fetchSt EXCEPT ![i] = NoPromise]
  /\ jsonSt' = [jsonSt EXCEPT ![i] = NoPromise]
  /\ UNCHANGED <<apiError, nCalls, requests>>

(* a reset that goes back to the upload screen and keeps the data *)
onReset_keepData ==
  /\ stage = DONE
  /\ stage' = UPLOAD
  /\ stageAge' = AgeAfter(UPLOAD)
  /\ upload' = Render(UPLOAD, upload)
  /\ last' = [op |-> "onReset", file |-> NoFile, call |-> 0]
  /\ UNCHANGED <<analysisData, apiError, pc, fetchSt, jsonSt, timer, nCalls,
                 requests>>

(* Dashboard's onReset: setStage(UPLOAD); setAnalysisData(null) *)
onReset ==
  /\ stage = DONE
  /\ stage' = UPLOAD
  /\ stageAge' = AgeAfter(UPLOAD)
  /\ analysisData' = JNull
  /\ upload' = Render(UPLOAD, upload)
  /\ last' = [op |-> "onReset", file |-> NoFile, call |-> 0]
  /\ UNCHANGED <<apiError, pc, fetchSt, jsonSt, timer, nCalls, requests>>

FilesOrNone == Files \cup {NoFile}

Next ==
  \/ onDragOver
  \/ onDragLeave
  \/ \E f \in FilesOrNone : onDrop(f)
  \/ \E f \in FilesOrNone : onChange(f)
  \/ handleAnalyze
  \/ \E d \in TickSizes : Tick(d)
  \/ \E i \in Calls, r \in Responses : FetchResolve(i, r)
  \/ \E i \in Calls, m \in NetworkErrors : FetchReject(i, m)
  \/ \E i \in Calls : TimerFire(i)
  \/ \E i \in Calls : CatchFetch(i)
  \/ \E i \in Calls : AfterFetch(i)
  \/ \E i \in Calls : JsonSettle(i)
  \/ \E i \in Calls : ThrowNotOk(i)
  \/ \E i \in Calls : CatchJson(i)
  \/ \E i \in Calls : Finish(i)
  \/ onReset

Spec == Init /\ [][Next]_vars

TypeOK ==
  /\ stage \in STAGE
  /\ upload.mounted = (stage = UPLOAD)
  /\ nCalls \in 0..MaxUploads
  /\ Len(requests) \in 0..MaxUploads
  /\ stageAge \in 0..ParsingMinMs

(* The steps the browser and the backend take on their own: timers run,
   promises settle and their continuations run.  Every request is assumed
   to settle eventually. *)
Progress ==
  \/ \E d \in TickSizes : Tick(d)
  \/ \E i \in Calls, r \in Responses : FetchResolve(i, r)
  \/ \E i \in Calls, m \in NetworkErrors : FetchReject(i, m)
  \/ \E i \in Calls : TimerFire(i)
  \/ \E i \in Calls : CatchFetch(i)
  \/ \E i \in Calls : AfterFetch(i)
  \/ \E i \in Calls : JsonSettle(i)
  \/ \E i \in Calls : ThrowNotOk(i)
  \/ \E i \in Calls : CatchJson(i)
  \/ \E i \in Calls : Finish(i)

LiveSpec == Init /\ [][Next]_vars /\ WF_vars(Progress)

-----------------------------------------------------------------------------
(* Properties *)

(* a file that is a PDF by neither its name nor its MIME type *)
IsPdf(f) == EndsWith(f.name, DotPdf) \/ f.type = PdfMime
NotPdf(f) == f # NoFile /\ ~IsPdf(f)

(* C1: after a non-PDF file is selected, by drop or by browse, the validation
   error is set and no file is selected; the Analyze action is enabled only
   with a PDF selected, and every request sent to the backend carries a
   PDF. *)
C1_NonPdfRejected ==
  /\ (last.op \in {"onDrop", "onChange"} /\ NotPdf(last.file)) =>
        /\ upload.error # ""
        /\ upload.file = NoFile
        /\ ~AnalyzeEnabled
  /\ AnalyzeEnabled => IsPdf(upload.file)
  /\ \A k \in 1..Len(requests) : IsPdf(requests[k])

C1_Witness ==
  /\ last.op = "onChange"
  /\ NotPdf(last.file)
  /\ last.file.name = UpperName
  /\ upload.error = UnsupportedMsg

(* C2 as stated: every stage change made by handleAnalyze goes to the next
   stage of UPLOAD -> PARSING -> CLASSIFYING -> DONE. *)
C2_Original ==
  [][(stage' # stage /\ stage # DONE) => stage' = stage + 1]_vars

(* C2 amended: every stage change made by handleAnalyze goes to the next
   stage in that order, or, when the upload fails, from PARSING or
   CLASSIFYING back to UPLOAD with apiError set. *)
C2_NextOrBackToUpload ==
  [][(stage' # stage /\ stage # DONE) =>
        \/ stage' = stage + 1
        \/ /\ stage \in {PARSING, CLASSIFYING}
           /\ stage' = UPLOAD
           /\ apiError' # ""]_vars

C2_Witness == last.op = "Finish" /\ stage = DONE /\ analysisData # JNull

(* C3: whenever the stage leaves PARSING it has been PARSING for at least
   1.5 s. *)
C3_ParsingHeld ==
  [][(stage = PARSING /\ stage' # PARSING) => stageAge >= ParsingMinMs]_vars

(* C4: whenever the stage leaves CLASSIFYING it has been CLASSIFYING for at
   least 1 s. *)
C4_ClassifyingHeld ==
  [][(stage = CLASSIFYING /\ stage' # CLASSIFYING) =>
        stageAge >= ClassifyingMinMs]_vars

(* C5: an upload answered with a non-2xx response ends with stage = UPLOAD,
   the upload screen shown and apiError non-empty. *)
C5_Non2xxBackToUpload ==
  last.op = "ThrowNotOk" =>
    /\ stage = UPLOAD
    /\ upload.mounted
    /\ apiError # ""

C5_Witness == last.op = "ThrowNotOk" /\ apiError = "Server error 500"

(* C6: when fetch rejects, or the body of a 2xx response cannot be parsed,
   the upload ends with stage = UPLOAD and apiError equal to the thrown
   error's message, or to the fallback text when that message is empty. *)
C6_RejectionBackToUpload ==
  [][\A i \in Calls :
        /\ (pc[i] = "await1" /\ fetchSt[i].st = "rejected" /\ pc'[i] # "await1") =>
              /\ stage' = UPLOAD
              /\ upload'.mounted
              /\ apiError' # ""
              /\ apiError' =
                   (IF fetchSt[i].msg # "" THEN fetchSt[i].msg ELSE FallbackMsg)
        /\ (pc[i] = "await2" /\ jsonSt[i].st = "rejected" /\ pc'[i] # "await2") =>
              /\ stage' = UPLOAD
              /\ upload'.mounted
              /\ apiError' = jsonSt[i].msg
              /\ apiError' # ""]_vars

C6_Witness == last.op = "CatchFetch" /\ apiError = FallbackMsg /\ stage = UPLOAD

C8_OneInFlight ==
  /\ Cardinality(InFlight) <= 1
  /\ (InFlight # {} \/ stage # UPLOAD) => ~AnalyzeEnabled
  /\ (InFlight # {}) = (stage \in {PARSING, CLASSIFYING})

C8_Witness == stage = CLASSIFYING /\ nCalls = 2 /\ InFlight = {2}

(* C9: after onReset the stage is UPLOAD, analysisData is null, apiError is
   empty and the upload screen has no file selected and no validation
   error. *)
C9_ResetClears ==
  last.op = "onReset" =>
    /\ stage = UPLOAD
    /\ analysisData = JNull
    /\ apiError = ""
    /\ upload.mounted
    /\ upload.file = NoFile
    /\ upload.error = ""

C9_Witness == last.op = "onReset" /\ nCalls >= 1

(* C10: the number of POST requests sent equals the number of Analyze
   actions taken, whatever the outcome of each upload. *)
C10_OneRequestPerAnalyze == Len(requests) = nCalls

C10_Witness ==
  /\ nCalls = 2
  /\ InFlight = {}
  /\ apiError = "Failed to fetch"

(* C11: analysisData changes only in the step that ends a successful upload,
   where it becomes the body received, and in onReset, where it becomes null;
   every other step leaves it unchanged, and while the stage stays DONE the
   analysis the Dashboard displays does not change. *)
C11_DataFrame ==
  [][/\ (analysisData' # analysisData) =>
           \/ last'.op = "Finish"
           \/ last'.op = "onReset" /\ analysisData' = JNull
     /\ \A i \in Calls :
           (pc[i] = "await2" /\ pc'[i] = "done" /\ stage' = DONE) =>
              analysisData' = fetchSt[i].val.body.value
     /\ (stage = DONE /\ stage' = DONE) =>
           Analysis(analysisData') = Analysis(analysisData)]_vars

C11_Witness ==
  /\ last.op = "ThrowNotOk"
  /\ nCalls = 2
  /\ analysisData = JNull
  /\ stage = UPLOAD

(* C12: when the stage becomes DONE, which happens only after a 2xx response,
   the analysis the Dashboard displays is the body of that response and not
   the object built from MOCK_TRANSACTIONS. *)
C12_BackendShown ==
  [][\A i \in Calls :
        (pc[i] = "await2" /\ pc'[i] = "done" /\ stage' = DONE) =>
           /\ Analysis(analysisData') = fetchSt[i].val.body.value
           /\ Analysis(analysisData') # MockAnalysis]_vars

Num(a, k) == Get(IdleCashOf(a), k).n
BalanceConsistent(a) ==
  Num(a, "balance") = Num(a, "total_income") - Num(a, "monthly_burn")

FirstTotal(a) == Get(Categories(a)[1], "total").n
TotalAt(a, k) == Get(Categories(a)[k], "total").n
Descending(a) ==
  \A k \in 1..(Len(Categories(a)) - 1) : TotalAt(a, k) >= TotalAt(a, k + 1)

(* C14 as stated: every bar is (c.total / categories[0].total) x 100 percent
   wide, the first bar is 100% wide, and with the categories in descending
   order no bar is wider than 100%. *)
C14_Original ==
  stage = DONE =>
    LET a == Analysis(analysisData)
    IN \A k \in 1..Len(Categories(a)) :
         /\ FirstTotal(a) # 0
         /\ BarWidth(a, k) = [num |-> TotalAt(a, k) * 100, den |-> FirstTotal(a)]
         /\ BarWidth(a, 1).num = 100 * BarWidth(a, 1).den
         /\ Descending(a) => BarWidth(a, k).num <= 100 * BarWidth(a, k).den

(* C14 amended: every bar is (c.total / m) x 100 percent wide, where m is
   categories[0].total, or 1 when that total is 0; when that total is not 0
   the first bar is 100% wide; with the categories in descending order no
   bar is wider than 100%. *)
C14_BarWidths ==
  stage = DONE =>
    LET a == Analysis(analysisData)
    IN \A k \in 1..Len(Categories(a)) :
         LET m == IF FirstTotal(a) # 0 THEN FirstTotal(a) ELSE 1
         IN /\ BarWidth(a, k) = [num |-> TotalAt(a, k) * 100, den |-> m]
            /\ FirstTotal(a) # 0 => BarWidth(a, 1).num = 100 * BarWidth(a, 1).den
            /\ Descending(a) => BarWidth(a, k).num <= 100 * BarWidth(a, k).den

C14_Witness ==
  /\ stage = DONE
  /\ Truthy(analysisData)
  /\ Len(Categories(analysisData)) = 2
  /\ TotalAt(analysisData, 1) = 100
  /\ TotalAt(analysisData, 2) = 50
  /\ BarWidth(analysisData, 2).num = 50 * BarWidth(analysisData, 2).den

(* C15: whenever the upload screen shows a backend error, some step clears
   apiError while the stage stays UPLOAD and no upload is started. *)
C15_Dismissible ==
  (stage = UPLOAD /\ apiError # "") =>
    ENABLED (Next /\ apiError' = "" /\ stage' = UPLOAD /\ nCalls' = nCalls)

(* C16: after accept(f), from a drop or from the file input, f is rejected
   (file null, the validation error set) exactly when its name does not end
   with ".pdf" and its type is not "application/pdf"; otherwise f is the
   selected file and the error is empty. *)
C16_AcceptRule ==
  (last.op \in {"onDrop", "onChange"} /\ last.file # NoFile) =>
    IF ~EndsWith(last.file.name, DotPdf) /\ last.file.type # PdfMime
      THEN upload.file = NoFile /\ upload.error = UnsupportedMsg
      ELSE upload.file = last.file /\ upload.error = ""

C16_Witness ==
  /\ last.op = "onDrop"
  /\ last.file = [name |-> UpperName, type |-> PdfMime]
  /\ upload.file = last.file
  /\ upload.error = ""

(* the message C17 gives for a non-2xx response *)
ClaimedMessage(r) ==
  IF ~r.body.valid THEN UnknownErrorMsg
  ELSE LET d == Get(r.body.value, "detail")
       IN IF d.t = "str" /\ d.s # "" THEN d.s
          ELSE IF d.t = "arr" /\ d.e # <<>> THEN ToStr(d)
          ELSE ServerError(r.status).s

(* C17: after a non-2xx response apiError is the detail of a JSON body that
   has a non-empty one, "Server error <status>" for a JSON body without one,
   and "Unknown error" for a body that is not JSON. *)
C17_Non2xxMessage ==
  [][\A i \in Calls :
        (pc[i] = "awaitErrJson" /\ pc'[i] = "done") =>
           apiError' = ClaimedMessage(fetchSt[i].val)]_vars

(* C18: the stage becomes DONE only in a step of an invocation whose response
   is 2xx with a parsed JSON body and whose 1000 ms timer has fired, and
   analysisData is then that body. *)
C18_DoneOnlyAfterSuccess ==
  [][(stage # DONE /\ stage' = DONE) =>
        \E i \in Calls :
           /\ pc[i] = "await2"
           /\ pc'[i] = "done"
           /\ fetchSt[i].st = "resolved"
           /\ fetchSt[i].val.ok
           /\ fetchSt[i].val.body.valid
           /\ jsonSt[i] = Resolved(fetchSt[i].val.body.value)
           /\ timer[i] = TimerFired
           /\ stageAge >= ClassifyingMinMs
           /\ analysisData' = fetchSt[i].val.body.value]_vars

C18_Witness ==
  /\ last.op = "Finish"
  /\ stage = DONE
  /\ nCalls = 2
  /\ Truthy(analysisData)
  /\ Get(analysisData, "period") = JStr("July 2026")

(* C19: apiError is non-empty only while the stage is UPLOAD. *)
C19_ErrorOnlyInUpload == apiError # "" => stage = UPLOAD

C19_Witness ==
  /\ last.op = "handleAnalyze"
  /\ nCalls = 2
  /\ stage = PARSING
  /\ apiError = ""

(* C20: in the upload screen a selected file and a validation error never
   coexist, and accept with no file leaves both as they are. *)
C20_FileXorError ==
  [][/\ upload'.file # NoFile => upload'.error = ""
     /\ upload'.error # "" => upload'.file = NoFile
     /\ (last'.op \in {"onDrop", "onChange"} /\ last'.file = NoFile) =>
           /\ upload'.file = upload.file
           /\ upload'.error = upload.error]_vars

C20_Witness ==
  /\ last.op = "onChange"
  /\ last.file = [name |-> LowerName, type |-> ""]
  /\ upload.file = last.file
  /\ upload.error = ""
  /\ apiError # ""

====
